---- MODULE Spec2Model ----
(***************************************************************************)
(* Model of the Planning Section Chief agent                               *)
(* (src/src/sar_project/agents/planning_agent.py).                         *)
(*                                                                         *)
(* Python str values are TLA+ strings; Python dicts whose key order is     *)
(* observable are sequences of [k, v] pairs in insertion order; Python     *)
(* lists are sequences.  A value that may be absent is the string "none"   *)
(* where the context cannot confuse it with a text.                        *)
(***************************************************************************)
EXTENDS Integers, Sequences, FiniteSets, TLC

(***************************************************************************)
(* Bounds of the model.                                                    *)
(***************************************************************************)
MaxAreas == 3
MaxCount == 2
MaxLlmAreas == 2

(***************************************************************************)
(* Python string primitives.                                               *)
(***************************************************************************)
\* needle in hay
StrContains(needle, hay) ==
  \E i \in 1..(Len(hay) - Len(needle) + 1) :
      SubSeq(hay, i, i + Len(needle) - 1) = needle

\* str.lower() of one character
LowerChar(c) ==
  CASE c = "A" -> "a" [] c = "B" -> "b" [] c = "C" -> "c" [] c = "D" -> "d"
    [] c = "E" -> "e" [] c = "F" -> "f" [] c = "G" -> "g" [] c = "H" -> "h"
    [] c = "I" -> "i" [] c = "J" -> "j" [] c = "K" -> "k" [] c = "L" -> "l"
    [] c = "M" -> "m" [] c = "N" -> "n" [] c = "O" -> "o" [] c = "P" -> "p"
    [] c = "Q" -> "q" [] c = "R" -> "r" [] c = "S" -> "s" [] c = "T" -> "t"
    [] c = "U" -> "u" [] c = "V" -> "v" [] c = "W" -> "w" [] c = "X" -> "x"
    [] c = "Y" -> "y" [] c = "Z" -> "z" [] OTHER -> c

\* str.lower(): every character lowered, the two halves of the text in turn
RECURSIVE StrLower(_)
StrLower(s) ==
  IF Len(s) = 0 THEN ""
  ELSE IF Len(s) = 1 THEN LowerChar(s)
  ELSE StrLower(SubSeq(s, 1, Len(s) \div 2))
         \o StrLower(SubSeq(s, Len(s) \div 2 + 1, Len(s)))

\* sep.join(parts)
RECURSIVE StrJoin(_, _)
StrJoin(sep, parts) ==
  IF Len(parts) = 0 THEN ""
  ELSE IF Len(parts) = 1 THEN parts[1]
  ELSE parts[1] \o sep \o StrJoin(sep, Tail(parts))

\* str.isspace() of one character
IsSpace(c) == c \in {" ", "\n", "\t"}

\* s.strip(): leading and trailing whitespace removed
RECURSIVE StrStripLeft(_)
StrStripLeft(s) ==
  IF Len(s) > 0 /\ IsSpace(SubSeq(s, 1, 1)) THEN StrStripLeft(SubSeq(s, 2, Len(s))) ELSE s

RECURSIVE StrStripRight(_)
StrStripRight(s) ==
  IF Len(s) > 0 /\ IsSpace(SubSeq(s, Len(s), Len(s)))
  THEN StrStripRight(SubSeq(s, 1, Len(s) - 1)) ELSE s

StrStrip(s) == StrStripRight(StrStripLeft(s))

\* s.split(sep) for a one-character sep: always at least one part
RECURSIVE StrSplitFrom(_, _, _)
StrSplitFrom(s, sep, current) ==
  IF Len(s) = 0 THEN <<current>>
  ELSE IF SubSeq(s, 1, 1) = sep
  THEN <<current>> \o StrSplitFrom(SubSeq(s, 2, Len(s)), sep, "")
  ELSE StrSplitFrom(SubSeq(s, 2, Len(s)), sep, current \o SubSeq(s, 1, 1))

StrSplit(s, sep) == StrSplitFrom(s, sep, "")

Min(a, b) == IF a <= b THEN a ELSE b

(***************************************************************************)
(* Python dict primitives on insertion-ordered pair sequences.             *)
(***************************************************************************)
DictKeys(d) == {d[i].k : i \in 1..Len(d)}

\* d.get(key, default)
DictGet(d, key, default) ==
  IF key \in DictKeys(d)
  THEN (CHOOSE p \in {d[i] : i \in 1..Len(d)} : p.k = key).v
  ELSE default

\* f.get(key, default) for a dict kept as a function
FnGet(f, key, default) == IF key \in DOMAIN f THEN f[key] ELSE default

\* allocated_resources[key] = value
FnSet(f, key, value) == [x \in (DOMAIN f) \cup {key} |-> IF x = key THEN value ELSE f[x]]

(***************************************************************************)
(* _prioritize_search_areas_basic_fallback (lines 341-358).                *)
(* Precipitation is kept in hundredths of a millimetre.                    *)
(***************************************************************************)
\* line 352: the 0.1 mm threshold, in hundredths of a millimetre
PrecipThreshold == 10

\* lines 343-350
FallbackAreas(last_known_location, terrain) ==
  <<[area |-> last_known_location, priority |-> "High",
     rationale |-> "Proximity to last known point."],
    [area |-> "Densely forested areas within search radius", priority |-> "Medium",
     rationale |-> "Terrain type: " \o terrain \o " may impede visibility."],
    [area |-> "Water bodies within search radius", priority |-> "Medium",
     rationale |-> "Potential hazard area."],
    [area |-> "Trails radiating outwards from last known location", priority |-> "Low",
     rationale |-> "Possible direction of travel."]>>

\* line 352
PrecipitationExceeds(weather_data) ==
  \/ FnGet(weather_data, "rain_1h_mm", 0) > PrecipThreshold
  \/ FnGet(weather_data, "snow_1h_mm", 0) > PrecipThreshold

\* lines 354-357: the two successive ifs applied to one area
EscalateArea(area) ==
  LET a1 == IF StrContains("forested", StrLower(area.area))
            THEN [area EXCEPT !.priority = "High"] ELSE area
  IN IF StrContains("trails", StrLower(a1.area))
     THEN [a1 EXCEPT !.priority = "Medium"] ELSE a1

PrioritizeBasicFallback(last_known_location, terrain, weather_data) ==
  LET areas == FallbackAreas(last_known_location, terrain)
  IN IF PrecipitationExceeds(weather_data)
     THEN [i \in 1..Len(areas) |-> EscalateArea(areas[i])]
     ELSE areas

(***************************************************************************)
(* PlanningAgent._prioritize_search_areas (lines 530-586).                 *)
(*                                                                         *)
(* An outcome of model.generate_content is [kind |-> "raise"] or           *)
(* [kind |-> "text", fenced, body]: body is what the text holds between    *)
(* its code-fence markers (if fenced), [json |-> FALSE] for text that is   *)
(* not JSON (the empty text included) or [json |-> TRUE, value |-> v].     *)
(* A JSON value is tagged: [type |-> "list", items], [type |-> "object",   *)
(* fields] (fields a function from keys to strings), [type |-> "string"]   *)
(* or [type |-> "number"].                                                 *)
(***************************************************************************)
\* line 563: .replace("```json", "").replace("```", "")
StripCodeFences(text) == [text EXCEPT !.fenced = FALSE]

\* line 568: json.loads; text still carrying fence markers is not JSON
JsonLoads(text) ==
  IF text.fenced \/ ~text.body.json
  THEN [kind |-> "raise", exc |-> "JSONDecodeError"]
  ELSE [kind |-> "return", value |-> text.body.value]

\* lines 573-574
AreaItemWellFormed(area_data) ==
  /\ area_data.type = "object"
  /\ \A key \in {"area", "priority", "rationale"} : key \in DOMAIN area_data.fields

\* line 576 left out: any priority passes
PriorityUnchecked(area_data) == TRUE

\* line 576
PriorityAllowed(area_data) ==
  area_data.fields["priority"] \in {"High", "Medium", "Low"}

\* lines 570-578: validation of the parsed value
ValidatePrioritizedAreas(value) ==
  IF value.type # "list"
  THEN [kind |-> "raise", exc |-> "ValueError"]
  ELSE IF \E i \in 1..Len(value.items) :
             ~AreaItemWellFormed(value.items[i])
             \/ ~PriorityAllowed(value.items[i])
  THEN [kind |-> "raise", exc |-> "ValueError"]
  ELSE [kind |-> "return",
        value |-> [i \in 1..Len(value.items) |-> value.items[i].fields]]

\* line 580: except (json.JSONDecodeError, ValueError)
InnerHandlerCatches(exc) == exc \in {"JSONDecodeError", "ValueError"}

\* line 584: except Exception
OuterHandlerCatches(exc) ==
  exc \in {"JSONDecodeError", "ValueError", "Exception"}

\* lines 566-582: the inner try statement
ParseAndValidate(text, fallback) ==
  LET parsed == JsonLoads(text)
      checked == IF parsed.kind = "raise" THEN parsed
                 ELSE ValidatePrioritizedAreas(parsed.value)
  IN IF checked.kind = "raise" /\ InnerHandlerCatches(checked.exc)
     THEN [kind |-> "return", value |-> fallback]
     ELSE checked

\* lines 561-586: the outer try statement; result [kind |-> "return", value]
\* or [kind |-> "raise", exc]
PrioritizeSearchAreas(last_known_location, terrain, weather_data, llm) ==
  LET fallback == PrioritizeBasicFallback(last_known_location, terrain, weather_data)
      body == IF llm.kind = "raise"
              THEN [kind |-> "raise", exc |-> "Exception"]
              ELSE ParseAndValidate(StripCodeFences(llm), fallback)
  IN IF body.kind = "raise" /\ OuterHandlerCatches(body.exc)
     THEN [kind |-> "return", value |-> fallback]
     ELSE body

(***************************************************************************)
(* Location typonyms (lines 610-650).                                      *)
(***************************************************************************)
\* lines 610-627 with the last two candidates in the other order
GenerateLocationTyponymsFirstBeforeLast(location_name) ==
  LET parts == StrSplit(location_name, ",")
      location_parts == [i \in 1..Len(parts) |-> StrStrip(parts[i])]
  IN IF Len(location_parts) >= 2
     THEN <<location_name,
            location_parts[1] \o "," \o location_parts[Len(location_parts)],
            location_parts[1],
            location_parts[Len(location_parts)]>>
     ELSE <<location_name>>

\* lines 610-627
GenerateLocationTyponymsBasic(location_name) ==
  LET parts == StrSplit(location_name, ",")
      location_parts == [i \in 1..Len(parts) |-> StrStrip(parts[i])]
  IN IF Len(location_parts) >= 2
     THEN <<location_name,
            location_parts[1] \o "," \o location_parts[Len(location_parts)],
            location_parts[Len(location_parts)],
            location_parts[1]>>
     ELSE <<location_name>>

\* lines 646: [name.strip() for name in gemini_output.split(',')]
SplitTyponyms(gemini_output) ==
  LET parts == StrSplit(gemini_output, ",")
  IN [i \in 1..Len(parts) |-> StrStrip(parts[i])]

\* lines 642-650; llm is [kind |-> "raise"] or [kind |-> "text", text |-> s]
GenerateLocationTyponymsGemini(location_name, llm) ==
  IF llm.kind = "raise"
  THEN GenerateLocationTyponymsBasic(location_name)
  ELSE SplitTyponyms(llm.text)


(***************************************************************************)
(* WeatherFetcher._get_real_weather_data (lines 657-697).                  *)
(*                                                                         *)
(* An answer of mgr.weather_at_place is [kind |-> "found", observation],   *)
(* [kind |-> "not_found"] (pyowm NotFoundError) or [kind |-> "error"] (any *)
(* other exception).  An observation is the dict of weather attributes.    *)
(***************************************************************************)
\* lines 666-671
TyponymsToTry(location_name, use_gemini, llm) ==
  IF use_gemini
  THEN GenerateLocationTyponymsGemini(location_name, llm)
  ELSE GenerateLocationTyponymsBasic(location_name)

\* lines 661, 666-669
GeminiUsedFlag(use_gemini, typonyms) == use_gemini /\ Len(typonyms) > 1

\* lines 673-674
LocationNamesToTry(location_name, typonyms) ==
  IF typonyms = <<>> THEN <<location_name>> ELSE typonyms

\* line 682
GeminiNote(location_name, current_location_name) ==
  "ORIGINAL NAME: '" \o location_name \o "' wasn't found, Gemini used '"
    \o current_location_name \o "' to get weather info."

\* lines 679-684
WeatherDict(location_name, current_location_name, gemini_used_flag, observation) ==
  IF gemini_used_flag
  THEN FnSet(observation, "gemini_note",
             GeminiNote(location_name, current_location_name))
  ELSE observation

\* lines 689-693
VariationsNotFound(location_name, gemini_used_flag) ==
  [error |->
     "Location '" \o location_name \o "' and variations not found."
       \o (IF gemini_used_flag
           THEN " Gemini variations were used but none were successful." ELSE "")
       \o " Please check the location name and try again with a more general or correctly formatted name (e.g., 'City,Country').",
   gemini_used |-> gemini_used_flag]

\* lines 695-697
WeatherFetchError(gemini_used_flag) ==
  [error |-> "Error fetching weather data: request failed",
   gemini_used |-> gemini_used_flag]

\* lines 677-687 with the return at line 684 lost: the loop goes on after a
\* success
LookupControlKeepsGoing(answer) ==
  IF answer.kind = "error" THEN "raise" ELSE "continue"

\* lines 677-687: what an answer makes of the loop: the function returns the
\* observation, the loop continues with the next name, or the exception leaves
\* the loop for the handler at line 695
LookupControl(answer) ==
  IF answer.kind = "found" THEN "return"
  ELSE IF answer.kind = "not_found" THEN "continue"
  ELSE "raise"

\* lines 676-693 as a whole: answers[i] is the lookup's answer for names[i]
RECURSIVE ResolveWeather(_, _, _, _, _)
ResolveWeather(location_name, names, gemini_used_flag, answers, i) ==
  IF i > Len(names) THEN VariationsNotFound(location_name, gemini_used_flag)
  ELSE IF LookupControl(answers[i]) = "return"
  THEN WeatherDict(location_name, names[i], gemini_used_flag, answers[i].observation)
  ELSE IF LookupControl(answers[i]) = "continue"
  THEN ResolveWeather(location_name, names, gemini_used_flag, answers, i + 1)
  ELSE WeatherFetchError(gemini_used_flag)

\* the names submitted to the lookup by lines 676-687, in order
RECURSIVE LookupsMade(_, _, _)
LookupsMade(names, answers, i) ==
  IF i > Len(names) THEN <<>>
  ELSE IF LookupControl(answers[i]) = "continue"
  THEN <<names[i]>> \o LookupsMade(names, answers, i + 1)
  ELSE <<names[i]>>


(***************************************************************************)
(* _suggest_resource_allocation (lines 60-151).                            *)
(***************************************************************************)
\* line 66
resource_types == <<"ground_teams", "search_dogs", "uavs">>

\* lines 68-72 with no ground team in the High row
resource_needs_HighWithoutTeams ==
  [High   |-> <<[k |-> "ground_teams", v |-> 0], [k |-> "search_dogs", v |-> 1],
                [k |-> "uavs", v |-> 1]>>,
   Medium |-> <<[k |-> "ground_teams", v |-> 1], [k |-> "search_dogs", v |-> 0],
                [k |-> "uavs", v |-> 1]>>,
   Low    |-> <<[k |-> "ground_teams", v |-> 1], [k |-> "search_dogs", v |-> 0],
                [k |-> "uavs", v |-> 0]>>]

\* lines 68-72; each row in the order of needs.items()
resource_needs ==
  [High   |-> <<[k |-> "ground_teams", v |-> 2], [k |-> "search_dogs", v |-> 1],
                [k |-> "uavs", v |-> 1]>>,
   Medium |-> <<[k |-> "ground_teams", v |-> 1], [k |-> "search_dogs", v |-> 0],
                [k |-> "uavs", v |-> 1]>>,
   Low    |-> <<[k |-> "ground_teams", v |-> 1], [k |-> "search_dogs", v |-> 0],
                [k |-> "uavs", v |-> 0]>>]

\* line 75: sum(resource_counts.values())
RECURSIVE SumAvailable(_, _)
SumAvailable(avail, types) ==
  IF Len(types) = 0 THEN 0
  ELSE DictGet(avail, Head(types), 0) + SumAvailable(avail, Tail(types))

total_resources(avail) == SumAvailable(avail, resource_types)

\* line 77
InitialAllocated(avail) == [r \in DictKeys(avail) |-> 0]

\* line 92
ResourceUnit(resource_type) ==
  IF StrContains("team", resource_type) THEN "team" ELSE "unit"

\* line 93: f"{can_allocate} {resource_unit}(s) ({resource_type})"
ResourceText(count, unit, resource_type) ==
  ToString(count) \o " " \o unit \o "(s) (" \o resource_type \o ")"

\* lines 98-103
RationaleAugmentation(area_name, resource_type) ==
  IF StrContains("forested", StrLower(area_name)) /\ resource_type = "uavs"
  THEN <<"Thermal drones are useful for detecting heat signatures in dense foliage.">>
  ELSE IF StrContains("water", StrLower(area_name)) /\ resource_type = "ground_teams"
  THEN <<"Ground teams may be needed to search near water edges.">>
  ELSE IF StrContains("trail", StrLower(area_name)) /\ resource_type = "search_dogs"
  THEN <<"Search dogs can effectively track scents along trails.">>
  ELSE <<>>

\* line 89 with the availability forgotten: the demand is always granted
CanAllocateDemandOnly(avail, allocated, need) == need.v

\* line 89 with the running count forgotten: exhaustion per area, not global
CanAllocatePerArea(avail, allocated, need) ==
  Min(need.v, DictGet(avail, need.k, 0))

\* line 89
CanAllocate(avail, allocated, need) ==
  Min(need.v, DictGet(avail, need.k, 0) - FnGet(allocated, need.k, 0))

\* lines 88-103: one pass of the inner loop over needs.items()
AllocateResource(avail, area, acc, need) ==
  LET can_allocate == CanAllocate(avail, acc.allocated, need)
      resource_unit == ResourceUnit(need.k)
  IN IF can_allocate > 0
     THEN [allocated |->
             FnSet(acc.allocated, need.k,
                   FnGet(acc.allocated, need.k, 0) + can_allocate),
           suggested_resources |->
             Append(acc.suggested_resources,
                    ResourceText(can_allocate, resource_unit, need.k)),
           rationale_parts |->
             acc.rationale_parts
               \o <<"Allocated " \o ToString(can_allocate) \o " " \o resource_unit
                    \o "(s) of " \o need.k \o " based on " \o area.priority
                    \o " priority and availability.">>
               \o RationaleAugmentation(area.area, need.k)]
     ELSE acc

\* lines 87-103: the inner loop
RECURSIVE AllocateNeeds(_, _, _, _)
AllocateNeeds(avail, area, acc, needs) ==
  IF Len(needs) = 0 THEN acc
  ELSE AllocateNeeds(avail, area, AllocateResource(avail, area, acc, Head(needs)),
                     Tail(needs))

\* lines 111-126: secondary allocation for a High area that received nothing
HighPrioritySecondary(avail, area, st) ==
  LET remaining_ground_teams ==
        DictGet(avail, "ground_teams", 0) - FnGet(st.allocated, "ground_teams", 0)
      allocate_count == Min(1, remaining_ground_teams)
  IN IF remaining_ground_teams > 0
     THEN [allocated |->
             [st.allocated EXCEPT !["ground_teams"] = @ + allocate_count],
           suggestions |->
             Append(st.suggestions,
                    [area |-> area.area,
                     suggested_resources |->
                       <<ToString(allocate_count) \o " team(s) (ground_teams)">>,
                     rationale |->
                       "High priority area, allocating remaining ground team."])]
     ELSE st

\* lines 80-126: the body of the loop over prioritized_areas
ProcessArea(avail, st, area) ==
  LET needs == IF area.priority \in DOMAIN resource_needs
               THEN resource_needs[area.priority] ELSE <<>>
      acc == AllocateNeeds(avail, area,
                           [allocated |-> st.allocated,
                            suggested_resources |-> <<>>,
                            rationale_parts |-> <<>>],
                           needs)
  IN IF acc.suggested_resources # <<>>
     THEN [allocated |-> acc.allocated,
           suggestions |->
             Append(st.suggestions,
                    [area |-> area.area,
                     suggested_resources |-> acc.suggested_resources,
                     rationale |->
                       IF acc.rationale_parts # <<>>
                       THEN StrJoin(" ", acc.rationale_parts)
                       ELSE "Allocated resources based on priority: "
                              \o area.priority \o "."])]
     ELSE IF area.priority = "High"
     THEN HighPrioritySecondary(avail, area, st)
     ELSE st

\* lines 129-137 with the loop of line 130 run over the three demand types
\* only
RECURSIVE RemainingResourceListTrackedOnly(_, _)
RemainingResourceListTrackedOnly(avail, allocated) ==
  IF Len(avail) = 0 THEN <<>>
  ELSE LET resource == Head(avail).k
           remaining == Head(avail).v - FnGet(allocated, resource, 0)
           rest == RemainingResourceListTrackedOnly(Tail(avail), allocated)
       IN IF remaining > 0 /\ resource \in {"ground_teams", "search_dogs", "uavs"}
          THEN <<ToString(remaining) \o " "
                   \o (IF StrContains("team", resource) THEN resource ELSE "unit")
                   \o "(s) (" \o resource \o ")">> \o rest
          ELSE rest

\* lines 129-133, then 136-137: the leftover strings in dict order
RECURSIVE RemainingResourceList(_, _)
RemainingResourceList(avail, allocated) ==
  IF Len(avail) = 0 THEN <<>>
  ELSE LET resource == Head(avail).k
           remaining == Head(avail).v - FnGet(allocated, resource, 0)
           rest == RemainingResourceList(Tail(avail), allocated)
       IN IF remaining > 0
          THEN <<ToString(remaining) \o " "
                   \o (IF StrContains("team", resource) THEN resource ELSE "unit")
                   \o "(s) (" \o resource \o ")">> \o rest
          ELSE rest

\* lines 128-151 with the synthetic entry put in front of the list
FinishAllocationSyntheticFirst(avail, st) ==
  LET remaining_resource_list == RemainingResourceList(avail, st.allocated)
  IN IF remaining_resource_list # <<>>
     THEN <<[area |-> "Unallocated Resources",
             suggested_resources |-> remaining_resource_list,
             rationale |->
               "These resources are still available and can be deployed as needed."]>>
            \o st.suggestions
     ELSE IF st.suggestions = <<>>
     THEN <<[area |-> "All areas",
             suggested_resources |-> <<"None - Resources depleted">>,
             rationale |-> "No resources available for allocation."]>>
     ELSE st.suggestions

\* lines 128-151: what follows the loop
FinishAllocation(avail, st) ==
  LET remaining_resource_list == RemainingResourceList(avail, st.allocated)
  IN IF remaining_resource_list # <<>>
     THEN Append(st.suggestions,
                 [area |-> "Unallocated Resources",
                  suggested_resources |-> remaining_resource_list,
                  rationale |->
                    "These resources are still available and can be deployed as needed."])
     ELSE IF st.suggestions = <<>> /\ total_resources(avail) > 0
     THEN <<[area |-> "All areas",
             suggested_resources |->
               <<"No specific allocations made based on current prioritization.">>,
             rationale |-> "Review prioritization or resource needs."]>>
     ELSE IF total_resources(avail) = 0 /\ st.suggestions = <<>>
     THEN <<[area |-> "All areas",
             suggested_resources |-> <<"None - Resources depleted">>,
             rationale |-> "No resources available for allocation."]>>
     ELSE st.suggestions

\* lines 79-126 as a whole
RECURSIVE AllocationPass(_, _, _)
AllocationPass(avail, st, areas) ==
  IF Len(areas) = 0 THEN st
  ELSE AllocationPass(avail, ProcessArea(avail, st, Head(areas)), Tail(areas))

\* the function's return value
SuggestResourceAllocation(areas, logistics_data) ==
  LET avail == logistics_data.available_resources
  IN FinishAllocation(avail,
       AllocationPass(avail,
                      [allocated |-> InitialAllocated(avail), suggestions |-> <<>>],
                      areas))

(***************************************************************************)
(* Fixtures (lines 215-299).                                               *)
(***************************************************************************)
\* lines 217-238
IncidentData ==
  [incident_type |-> "Missing Person",
   priority |-> "High",
   location |-> "Crystal Cove State Park, CA",
   mission_objective |-> "Locate and rescue missing hiker",
   time_reported |-> "2024-08-03 14:00 PST",
   search_area_size_km2 |-> 10,
   reporting_person |-> "Park Ranger John Doe",
   last_known_location |-> "Trailhead near park entrance",
   possible_scenarios |-> <<"Lost on trail", "Injury", "Medical emergency">>,
   special_instructions |->
     "Search near marked trails first, then expand to backcountry. Be aware of steep cliffs and wildlife.",
   missing_person_description |->
     [name |-> "Alice Smith", age |-> 34, gender |-> "Female",
      clothing |-> "Red jacket, blue jeans, hiking boots",
      items |-> <<"backpack", "water bottle", "cell phone (likely dead)">>,
      health_conditions |-> <<"asthma", "allergies to bees">>,
      experience_level |-> "Experienced hiker"]]

\* lines 261-284
LogisticsData ==
  [available_resources |->
     <<[k |-> "ground_teams", v |-> 5], [k |-> "search_dogs", v |-> 2],
       [k |-> "helicopters", v |-> 1], [k |-> "uavs", v |-> 3],
       [k |-> "paramedics", v |-> 3], [k |-> "communication_units", v |-> 4]>>,
   resource_locations |->
     [ground_teams_base |-> "Park HQ", helicopters_base |-> "Nearby airport",
      drones_staging |-> "Open field near trailhead"],
   communication_channels |->
     [primary |-> "VHF Channel 16", secondary |-> "Satellite phone",
      digital |-> "SARNet App"],
   medical_supplies_status |-> "Adequate",
   fuel_status |-> "Full",
   transportation |-> "Trucks and SUVs available at Park HQ"]

\* lines 289-299
EnvironmentalData(location) ==
  [location |-> location,
   terrain_type |-> "Coastal mountains, mixed forest and trails",
   vegetation_density |-> "Moderate to dense",
   elevation_range_meters |-> "0-600",
   water_sources |-> <<"Freshwater creek", "Small reservoir">>,
   wildlife_hazards |-> <<"Mountain lions", "Snakes", "Poison oak">>,
   daylight_hours |-> "6:00 AM to 8:00 PM",
   typical_weather_patterns |-> "Morning fog, sunny afternoons"]

(***************************************************************************)
(* _get_static_map_url (lines 241-256).                                    *)
(*                                                                         *)
(* An answer of gmaps.geocode is [kind |-> "raise"] or [kind |-> "list",   *)
(* results], each result holding lat and lng as the texts the f-string     *)
(* renders them to.                                                        *)
(***************************************************************************)
\* line 25
GOOGLE_MAPS_API_KEY == "AIzaModelKey"

\* urllib.parse.quote_plus of one character of a "lat,lng" text
QuotePlusChar(c) ==
  IF c = "," THEN "%2C" ELSE IF c = " " THEN "+" ELSE c

RECURSIVE QuotePlus(_)
QuotePlus(s) ==
  IF Len(s) = 0 THEN ""
  ELSE IF Len(s) = 1 THEN QuotePlusChar(s)
  ELSE QuotePlus(SubSeq(s, 1, Len(s) \div 2))
         \o QuotePlus(SubSeq(s, Len(s) \div 2 + 1, Len(s)))

\* lines 244-256: the try statement
StaticMapUrl(geocode) ==
  IF geocode.kind = "raise"
  THEN "Error generating map URL: request failed"
  ELSE IF geocode.results = <<>>
  THEN "Error: Could not geocode location."
  ELSE LET center_coords == geocode.results[1].lat \o "," \o geocode.results[1].lng
       IN "https://maps.googleapis.com/maps/api/staticmap?size=400x400&center="
            \o center_coords
            \o "&zoom=12&maptype=terrain&markers=color:red%7Clabel:P%7C"
            \o QuotePlus(center_coords) \o "&key=" \o GOOGLE_MAPS_API_KEY

(***************************************************************************)
(* _calculate_search_area (lines 302-338).                                 *)
(*                                                                         *)
(* Time is kept in half hours and distance in quarter kilometres: 0.5 km   *)
(* per hour is one quarter kilometre per half hour.  The clock is          *)
(* [parsed |-> FALSE] when strptime raises ValueError, otherwise           *)
(* [parsed |-> TRUE, elapsed_half_hours |-> now - time_reported].          *)
(***************************************************************************)
Max(a, b) == IF a >= b THEN a ELSE b

\* line 307
ExperienceLevel(incident_data) ==
  StrLower(FnGet(incident_data.missing_person_description, "experience_level",
                 "Unknown"))

\* lines 309-316, in half hours
TimeElapsedHalfHours(clock) ==
  IF clock.parsed THEN clock.elapsed_half_hours ELSE 6 * 2

\* lines 318-325 with the "beginner" test of line 322 lost
BaseRadiusWithoutBeginner(experience_level) ==
  IF StrContains("experienced", experience_level) THEN 4 + 8
  ELSE IF StrContains("novice", experience_level) THEN 4 + 2
  ELSE 4 + 4

\* lines 318-325, in quarter kilometres
BaseRadiusQuarterKm(experience_level) ==
  IF StrContains("experienced", experience_level) THEN 4 + 8
  ELSE IF StrContains("novice", experience_level)
          \/ StrContains("beginner", experience_level) THEN 4 + 2
  ELSE 4 + 4

\* lines 328-329, in quarter kilometres
SearchRadiusQuarterKm(incident_data, clock) ==
  Max(4, BaseRadiusQuarterKm(ExperienceLevel(incident_data))
           + TimeElapsedHalfHours(clock))

\* f"{x:.2f}" of x = n / d for d in {2, 4}
FormatFraction2f(n, d) ==
  LET a == IF n < 0 THEN 0 - n ELSE n
      cents == ((a % d) * 100) \div d
  IN (IF n < 0 THEN "-" ELSE "") \o ToString(a \div d) \o "."
       \o (IF cents < 10 THEN "0" ELSE "") \o ToString(cents)

\* lines 331-336
SearchAreaDescription(incident_data, clock) ==
  "Initial search area: Approximately a "
    \o FormatFraction2f(SearchRadiusQuarterKm(incident_data, clock), 4)
    \o "km radius around the last known location: "
    \o incident_data.last_known_location \o ". "
    \o (IF StrContains("experienced", ExperienceLevel(incident_data))
        THEN "The missing person is an experienced hiker, so a larger search radius is considered. "
        ELSE IF StrContains("novice", ExperienceLevel(incident_data))
        THEN "The missing person is a novice hiker, so the initial radius is slightly smaller. "
        ELSE "")
    \o "Time elapsed since reported: "
    \o FormatFraction2f(TimeElapsedHalfHours(clock), 2) \o " hours."

\* lines 302-338: the returned pair; only ValueError is handled (line 314)
CalculateSearchArea(incident_data, clock) ==
  [kind |-> "return",
   search_area_description |-> SearchAreaDescription(incident_data, clock),
   search_radius_km |-> SearchRadiusQuarterKm(incident_data, clock)]

(***************************************************************************)
(* Strategy document and mission plan.                                     *)
(***************************************************************************)
\* lines 699-700 and 657-697 as one call: the fetcher catches everything
GetWeatherForLocation(location_name, use_gemini, client_ok, llm, answers) ==
  IF client_ok
  THEN LET names == TyponymsToTry(location_name, use_gemini, llm)
       IN [kind |-> "return",
           value |-> ResolveWeather(location_name,
                                    LocationNamesToTry(location_name, names),
                                    GeminiUsedFlag(use_gemini, names), answers, 1)]
  ELSE [kind |-> "return", value |-> WeatherFetchError(FALSE)]

\* lines 504-517
PlanningAgentRealWeatherData(fetched) ==
  IF fetched.kind = "raise"
  THEN [error |-> "Unexpected error: " \o fetched.exc]
  ELSE fetched.value

\* lines 519-528
OperationsData(weather_data) ==
  [available_search_teams |-> <<"Team Alpha", "Team Bravo", "Team Charlie">>,
   current_weather_data |-> weather_data,
   visibility |-> IF FnGet(weather_data, "cloud_coverage_percent", 0) < 70
                  THEN "Good" ELSE "Moderate",
   areas_already_searched |-> <<"Parking Area 1", "Main Trails near Reservoir">>]

\* lines 588-601
FormatOutputJson(incident_data, operations_data, logistics_data, environmental_data, search_area_description, areas, resource_allocation_suggestions, map_url) ==
  [incident_details |-> incident_data,
   operations_details |-> operations_data,
   logistics_details |-> logistics_data,
   environmental_details |-> environmental_data,
   calculated_search_area |-> search_area_description,
   prioritized_search_areas |-> areas,
   suggested_resource_allocation |-> resource_allocation_suggestions,
   map_url |-> map_url]

\* lines 380-384; llm is [kind |-> "raise"] or [kind |-> "text", text]
GenerateGeminiSummary(llm) ==
  IF llm.kind = "raise" THEN [kind |-> "raise", exc |-> "Exception"]
  ELSE IF llm.text # "" THEN [kind |-> "return", value |-> llm.text]
  ELSE [kind |-> "return",
        value |-> "Error: Could not generate summary from Gemini API."]

\* line 200
KeySearchAreaLines(areas) ==
  [i \in 1..Len(areas) |->
     "- " \o areas[i].area \o " (Priority: " \o areas[i].priority \o ")"]

\* line 203
ResourceAllocationLines(entries) ==
  [i \in 1..Len(entries) |->
     "- " \o entries[i].area \o ": " \o StrJoin(", ", entries[i].suggested_resources)]

\* lines 193-206
PlanSummaryText(plan_details) ==
  "\n        Mission Plan Summary:\n\n        Mission Name: "
    \o plan_details.mission_name \o "\n        Objective: " \o plan_details.objective
    \o "\n\n        Key Search Areas:\n        "
    \o StrJoin("\n", KeySearchAreaLines(plan_details.prioritized_search_areas))
    \o "\n\n        Resource Allocation:\n        "
    \o StrJoin("\n", ResourceAllocationLines(plan_details.resource_allocation))
    \o "\n\n        See full JSON output for detailed communication, safety, and timeline information.\n        "

\* lines 165-191
PlanDetails(strategy_data) ==
  [mission_name |->
     "SAR Mission - " \o strategy_data.incident_details.incident_type \o " - "
       \o strategy_data.incident_details.location,
   date_prepared |-> "2024-08-04",
   objective |-> strategy_data.mission_objective,
   search_strategy_summary |-> strategy_data.strategy_summary_text_gemini,
   prioritized_search_areas |-> strategy_data.prioritized_search_areas,
   resource_allocation |-> strategy_data.suggested_resource_allocation,
   communication_plan |->
     [primary_channel |-> "VHF Channel 16", secondary_channel |-> "Satellite phone",
      digital_platform |-> "SARNet App",
      backup_communication |-> "Runner if digital fails"],
   safety_protocols |->
     <<"Team check-in every hour", "Emergency contact protocols in place",
       "Wildlife awareness briefings", "First aid kits with each team">>,
   timeline |->
     [start_time |-> "07:00 PST", briefing_time |-> "06:30 PST",
      debriefing_time |-> "18:00 PST", end_of_day |-> "19:00 PST"],
   map_url |-> strategy_data.map_url]

\* the keys lines 166-190 read
MissionPlanKeysPresent(strategy_data) ==
  /\ {"incident_details", "mission_objective", "strategy_summary_text_gemini",
      "prioritized_search_areas", "suggested_resource_allocation", "map_url"}
       \subseteq DOMAIN strategy_data
  /\ {"incident_type", "location"} \subseteq DOMAIN strategy_data.incident_details

\* lines 154-212
CreateMissionPlan(strategy_data) ==
  IF MissionPlanKeysPresent(strategy_data)
  THEN LET plan_details == PlanDetails(strategy_data)
       IN [key \in DOMAIN plan_details \cup {"plan_summary_text"} |->
             IF key = "plan_summary_text" THEN PlanSummaryText(plan_details)
             ELSE plan_details[key]]
  ELSE [error |-> "Error creating mission plan: missing key"]


(***************************************************************************)
(* PlanningAgent.process_request (lines 447-470).                          *)
(*                                                                         *)
(* A Python value of a message is [type |-> "str", s], [type |-> "int", n] *)
(* or None; a message is [type |-> "dict", items] or not a dict at all.    *)
(***************************************************************************)
PyNone == [type |-> "NoneType"]

PyStr(s) == [type |-> "str", s |-> s]

\* message.get("action"), line 458, of a dict
MessageGetAction(message) == FnGet(message.items, "action", PyNone)

\* lines 460-466 with the else branch lost: what is not a mission plan
\* request is taken for a strategy request
DispatchDefaultsToStrategy(action) ==
  IF action = PyStr("create_mission_plan") THEN "create_mission_plan"
  ELSE "generate_strategy"

\* lines 460-466: the branch the action selects
Dispatch(action) ==
  IF action = PyStr("generate_strategy") THEN "generate_strategy"
  ELSE IF action = PyStr("create_mission_plan") THEN "create_mission_plan"
  ELSE "unknown"

\* line 466
UnknownActionError(action) ==
  [error |-> "Unknown action requested.", requested_action |-> action]

\* lines 468-470 with the handler lost: the exception leaves process_request
ExceptHandlerReraises(exc, message) == [kind |-> "raise", exc |-> exc]

\* lines 468-470
ExceptHandler(exc, message) ==
  [kind |-> "return",
   value |-> [error |-> "Error processing request: " \o exc,
              message_details |-> message]]

\* lines 479-487 with line 485 lost: prioritization follows data collection
StageAfterSkipsEstimation(pc) ==
  IF pc = "collect" THEN "prioritize"
  ELSE IF pc = "search_area" THEN "prioritize"
  ELSE IF pc = "prioritize" THEN "allocate"
  ELSE IF pc = "allocate" THEN "summarize"
  ELSE "strategy_ready"

\* lines 479-502: the statement group that follows a completed one
StageAfter(pc) ==
  IF pc = "collect" THEN "search_area"
  ELSE IF pc = "search_area" THEN "prioritize"
  ELSE IF pc = "prioritize" THEN "allocate"
  ELSE IF pc = "allocate" THEN "summarize"
  ELSE "strategy_ready"

\* lines 494-502 with line 497 lost: the summary is never stored
StrategyDocumentWithoutSummary(formatted, incident_data, gemini_summary_text) ==
  [key \in DOMAIN formatted \cup {"mission_objective",
                                  "strategy_summary_text_original"} |->
     IF key = "mission_objective" THEN incident_data.mission_objective
     ELSE IF key = "strategy_summary_text_original"
     THEN "See Gemini-generated summary in JSON output for a user-friendly version."
     ELSE formatted[key]]

\* lines 494-502: the keys added to the formatted document
StrategyDocument(formatted, incident_data, gemini_summary_text) ==
  [key \in DOMAIN formatted \cup {"mission_objective", "strategy_summary_text_gemini",
                                  "strategy_summary_text_original"} |->
     IF key = "mission_objective" THEN incident_data.mission_objective
     ELSE IF key = "strategy_summary_text_gemini" THEN gemini_summary_text
     ELSE IF key = "strategy_summary_text_original"
     THEN "See Gemini-generated summary in JSON output for a user-friendly version."
     ELSE formatted[key]]

(***************************************************************************)
(* State.                                                                  *)
(***************************************************************************)
VARIABLES
  \* _suggest_resource_allocation
  prioritized_areas,    \* the prioritized_areas argument
  available_resources,  \* logistics_data["available_resources"]
  allocated_resources,  \* running allocated count per resource type
  suggestions,          \* the AllocationEntry list built so far
  area_idx,             \* number of areas the for loop has processed
  alloc_pc,             \* "idle", "loop" (line 79) or "done" (line 151)
  \* _prioritize_search_areas and its fallback
  pr_last_known_location,
  pr_weather_data,
  pr_llm,               \* what model.generate_content did (line 562)
  pr_result,            \* [kind |-> "return", value] or [kind |-> "raise", exc]
  pr_pc,                \* "idle", "ready", "prioritized" or "fallback_done"
  \* WeatherFetcher._get_real_weather_data
  w_location_name,
  w_use_gemini,
  w_llm,                \* what model.generate_content did (line 643)
  typonyms,             \* what the typonym generator returned (lines 667, 671)
  location_names_to_try,
  gemini_used_flag,
  cand_idx,             \* number of candidates the for loop has passed
  lookup_log,           \* names given to mgr.weather_at_place, in call order
  lookup_answers,       \* its answers, in call order
  weather_result,
  weather_pc,           \* "idle", "start", "loop" or "done"
  \* PlanningAgent.process_request
  message,              \* the request message
  req_pc,               \* the statement process_request has reached
  calls,                \* collaborator calls made so far, with their outcomes
  frame,                \* locals of _generate_and_format_strategy set so far
  req_exception,        \* the exception a stage raised, if one did
  req_result,           \* [kind |-> "return", value] or [kind |-> "raise", exc]
  stages,               \* the stages the request has entered, in order
  \* _calculate_search_area
  sa_incident_data,     \* the incident_data argument
  sa_clock,             \* what strptime and datetime.now() give (lines 311-313)
  sa_result,            \* the returned description and radius
  sa_pc                 \* "idle", "ready" or "done"

allocVars == <<prioritized_areas, available_resources, allocated_resources,
               suggestions, area_idx, alloc_pc>>

prVars == <<pr_last_known_location, pr_weather_data, pr_llm, pr_result, pr_pc>>

weatherVars == <<w_location_name, w_use_gemini, w_llm, typonyms,
                 location_names_to_try, gemini_used_flag, cand_idx, lookup_log,
                 lookup_answers, weather_result, weather_pc>>

reqVars == <<message, req_pc, calls, frame, req_exception, req_result, stages>>

saVars == <<sa_incident_data, sa_clock, sa_result, sa_pc>>

vars == <<allocVars, prVars, weatherVars, reqVars, saVars>>

NoValue == [kind |-> "none"]

AllocIdle ==
  /\ prioritized_areas = <<>>
  /\ available_resources = <<>>
  /\ allocated_resources = <<>>
  /\ suggestions = <<>>
  /\ area_idx = 0
  /\ alloc_pc = "idle"

PrioritizeIdle ==
  /\ pr_last_known_location = ""
  /\ pr_weather_data = <<>>
  /\ pr_llm = NoValue
  /\ pr_result = NoValue
  /\ pr_pc = "idle"

WeatherIdle ==
  /\ w_location_name = ""
  /\ w_use_gemini = FALSE
  /\ w_llm = NoValue
  /\ typonyms = <<>>
  /\ location_names_to_try = <<>>
  /\ gemini_used_flag = FALSE
  /\ cand_idx = 0
  /\ lookup_log = <<>>
  /\ lookup_answers = <<>>
  /\ weather_result = <<>>
  /\ weather_pc = "idle"

SearchAreaIdle ==
  /\ sa_incident_data = NoValue
  /\ sa_clock = NoValue
  /\ sa_result = NoValue
  /\ sa_pc = "idle"

RequestIdle ==
  /\ message = NoValue
  /\ req_pc = "idle"
  /\ calls = <<>>
  /\ frame = <<>>
  /\ req_exception = NoValue
  /\ req_result = NoValue
  /\ stages = <<>>

(***************************************************************************)
(* The allocation pass, one area per step.                                 *)
(***************************************************************************)
PriorityInputs == {"High", "Medium", "Low", "Critical"}

AreaNamePool == <<"A", "B", "C", "D", "E">>

AreaNameAt(i) == AreaNamePool[((i - 1) % Len(AreaNamePool)) + 1]

\* every list of up to MaxAreas areas, each of any priority
AreaListInputs ==
  UNION {{[i \in 1..n |-> [area |-> AreaNameAt(i), priority |-> p[i],
                           rationale |-> "Model rationale."]] :
            p \in [1..n -> PriorityInputs]} : n \in 0..MaxAreas}

\* the lists the fallback prioritization produces for the fixture incident
FallbackListInputs ==
  {PrioritizeBasicFallback(IncidentData.last_known_location,
                           EnvironmentalData("").terrain_type, w) :
     w \in {<<>>, [rain_1h_mm |-> 50]}}

\* availability records: the demand-table types with every count up to
\* MaxCount, with and without a further type; records lacking keys; the
\* fixture; and the record of the documented scenario
LogisticsInputs ==
  {<<[k |-> "ground_teams", v |-> g], [k |-> "search_dogs", v |-> d],
     [k |-> "uavs", v |-> u]>> \o extra :
     g \in 0..MaxCount, d \in 0..MaxCount, u \in 0..MaxCount,
     extra \in {<<>>, <<[k |-> "helicopters", v |-> 1]>>}}
  \cup {<<[k |-> "ground_teams", v |-> g]>> : g \in 0..MaxCount}
  \cup {<<>>, <<[k |-> "helicopters", v |-> 0]>>,
        LogisticsData.available_resources,
        <<[k |-> "ground_teams", v |-> 5], [k |-> "search_dogs", v |-> 2],
          [k |-> "uavs", v |-> 3]>>}

InitAlloc ==
  /\ prioritized_areas \in AreaListInputs \cup FallbackListInputs
  /\ available_resources \in LogisticsInputs
  /\ allocated_resources = InitialAllocated(available_resources)
  /\ suggestions = <<>>
  /\ area_idx = 0
  /\ alloc_pc = "loop"
  /\ PrioritizeIdle
  /\ WeatherIdle
  /\ RequestIdle
  /\ SearchAreaIdle

\* lines 79-126: one iteration of the loop
AllocateArea ==
  /\ alloc_pc = "loop"
  /\ area_idx < Len(prioritized_areas)
  /\ LET st == ProcessArea(available_resources,
                           [allocated |-> allocated_resources,
                            suggestions |-> suggestions],
                           prioritized_areas[area_idx + 1])
     IN /\ allocated_resources' = st.allocated
        /\ suggestions' = st.suggestions
  /\ area_idx' = area_idx + 1
  /\ UNCHANGED <<prioritized_areas, available_resources, alloc_pc>>
  /\ UNCHANGED <<prVars, weatherVars, reqVars, saVars>>

\* lines 128-151: the loop is over
AllocateFinish ==
  /\ alloc_pc = "loop"
  /\ area_idx = Len(prioritized_areas)
  /\ suggestions' = FinishAllocation(available_resources,
                                     [allocated |-> allocated_resources,
                                      suggestions |-> suggestions])
  /\ alloc_pc' = "done"
  /\ UNCHANGED <<prioritized_areas, available_resources, allocated_resources,
                 area_idx>>
  /\ UNCHANGED <<prVars, weatherVars, reqVars, saVars>>

NextAlloc == AllocateArea \/ AllocateFinish

SpecAlloc == InitAlloc /\ [][NextAlloc]_vars

(***************************************************************************)
(* Reading an allocation result back: the units a rendered resource string *)
(* "<count> <unit>(s) (<resource_type>)" grants of a resource type.        *)
(***************************************************************************)
DigitValue(c) == CHOOSE d \in 0..9 : ToString(d) = c

RECURSIVE ParseNat(_)
ParseNat(digits) ==
  IF Len(digits) = 0 THEN 0
  ELSE 10 * ParseNat(SubSeq(digits, 1, Len(digits) - 1))
         + DigitValue(SubSeq(digits, Len(digits), Len(digits)))

StrEndsWith(s, suffix) ==
  Len(s) >= Len(suffix) /\ SubSeq(s, Len(s) - Len(suffix) + 1, Len(s)) = suffix

FirstSpace(s) ==
  CHOOSE i \in 1..Len(s) :
    SubSeq(s, i, i) = " " /\ \A j \in 1..(i - 1) : SubSeq(s, j, j) # " "

UnitsInText(text, resource_type) ==
  IF StrEndsWith(text, "(s) (" \o resource_type \o ")")
  THEN ParseNat(SubSeq(text, 1, FirstSpace(text) - 1))
  ELSE 0

RECURSIVE UnitsInTexts(_, _)
UnitsInTexts(texts, resource_type) ==
  IF Len(texts) = 0 THEN 0
  ELSE UnitsInText(Head(texts), resource_type)
         + UnitsInTexts(Tail(texts), resource_type)

UnitsInEntry(entry, resource_type) ==
  UnitsInTexts(entry.suggested_resources, resource_type)

RECURSIVE UnitsInEntries(_, _)
UnitsInEntries(entries, resource_type) ==
  IF Len(entries) = 0 THEN 0
  ELSE UnitsInEntry(Head(entries), resource_type)
         + UnitsInEntries(Tail(entries), resource_type)

SyntheticAreaNames == {"Unallocated Resources", "All areas"}

\* the entries of the areas, without the synthetic entry the end may append
PerAreaEntries ==
  IF alloc_pc = "done" /\ Len(suggestions) > 0
       /\ suggestions[Len(suggestions)].area \in SyntheticAreaNames
  THEN SubSeq(suggestions, 1, Len(suggestions) - 1)
  ELSE suggestions

Available(resource_type) == DictGet(available_resources, resource_type, 0)

Running(resource_type) == FnGet(allocated_resources, resource_type, 0)

ResourceCatalogue ==
  {"ground_teams", "search_dogs", "uavs", "helicopters", "paramedics",
   "communication_units"}

DemandTypes == {"ground_teams", "search_dogs", "uavs"}

\* the demand table as the specification documents it
DocumentedDemand(priority, resource_type) ==
  CASE priority = "High" ->
         (CASE resource_type = "ground_teams" -> 2
            [] resource_type = "search_dogs" -> 1
            [] resource_type = "uavs" -> 1)
    [] priority = "Medium" ->
         (CASE resource_type = "ground_teams" -> 1
            [] resource_type = "search_dogs" -> 0
            [] resource_type = "uavs" -> 1)
    [] priority = "Low" ->
         (CASE resource_type = "ground_teams" -> 1
            [] resource_type = "search_dogs" -> 0
            [] resource_type = "uavs" -> 0)
    [] OTHER -> 0

RECURSIVE DocumentedDemandOfAreas(_, _)
DocumentedDemandOfAreas(areas, resource_type) ==
  IF Len(areas) = 0 THEN 0
  ELSE DocumentedDemand(Head(areas).priority, resource_type)
         + DocumentedDemandOfAreas(Tail(areas), resource_type)

(***************************************************************************)
(* C1: at every point of the allocation pass, and in its result, the       *)
(* running allocated count of every resource type is at most its available *)
(* count, and so is the total of the units of that type granted by the     *)
(* per-area entries.                                                       *)
(***************************************************************************)
C1_NeverOverAllocates ==
  /\ \A r \in DOMAIN allocated_resources : allocated_resources[r] <= Available(r)
  /\ \A t \in ResourceCatalogue : UnitsInEntries(PerAreaEntries, t) <= Available(t)

\* the pass is over, the areas asked for more ground teams than there are,
\* and every ground team has been granted
C1_Witness ==
  /\ alloc_pc = "done"
  /\ Available("ground_teams") > 0
  /\ DocumentedDemandOfAreas(prioritized_areas, "ground_teams")
       > Available("ground_teams")
  /\ Running("ground_teams") = Available("ground_teams")
  /\ UnitsInEntries(PerAreaEntries, "ground_teams") = Available("ground_teams")

(***************************************************************************)
(* C2: each step of the pass grants the area, for each type of the demand  *)
(* table, min(demand of its priority, available minus what the earlier     *)
(* areas were granted), and the entry it emits lists exactly those units;  *)
(* an area whose priority is not in the table is granted nothing.  For     *)
(* {ground_teams 5, search_dogs 2, uavs 3} and A High, B Medium, C Low the *)
(* result is A 2+1+1, B 1+0+1, C 1+0+0 and leftovers 1, 1, 1.              *)
(***************************************************************************)
ScenarioAvailability ==
  <<[k |-> "ground_teams", v |-> 5], [k |-> "search_dogs", v |-> 2],
    [k |-> "uavs", v |-> 3]>>

ScenarioPriorities == <<"High", "Medium", "Low">>

IsScenario ==
  /\ available_resources = ScenarioAvailability
  /\ Len(prioritized_areas) = 3
  /\ \A i \in 1..3 : /\ prioritized_areas[i].area = AreaNamePool[i]
                     /\ prioritized_areas[i].priority = ScenarioPriorities[i]

C2_Step ==
  area_idx' = area_idx + 1 =>
    LET area == prioritized_areas[area_idx + 1]
    IN /\ \A t \in DemandTypes :
            /\ FnGet(allocated_resources', t, 0) - Running(t)
                 = Min(DocumentedDemand(area.priority, t),
                       Available(t) - UnitsInEntries(suggestions, t))
            /\ UnitsInEntries(suggestions', t) - UnitsInEntries(suggestions, t)
                 = FnGet(allocated_resources', t, 0) - Running(t)
       /\ area.priority \notin {"High", "Medium", "Low"} =>
            /\ suggestions' = suggestions
            /\ allocated_resources' = allocated_resources

C2_Scenario ==
  (IsScenario /\ alloc_pc = "done") =>
    /\ Len(suggestions) = 4
    /\ suggestions[1].area = "A"
    /\ UnitsInEntry(suggestions[1], "ground_teams") = 2
    /\ UnitsInEntry(suggestions[1], "search_dogs") = 1
    /\ UnitsInEntry(suggestions[1], "uavs") = 1
    /\ suggestions[2].area = "B"
    /\ UnitsInEntry(suggestions[2], "ground_teams") = 1
    /\ UnitsInEntry(suggestions[2], "search_dogs") = 0
    /\ UnitsInEntry(suggestions[2], "uavs") = 1
    /\ suggestions[3].area = "C"
    /\ UnitsInEntry(suggestions[3], "ground_teams") = 1
    /\ UnitsInEntry(suggestions[3], "search_dogs") = 0
    /\ UnitsInEntry(suggestions[3], "uavs") = 0
    /\ suggestions[4].area = "Unallocated Resources"
    /\ \A t \in DemandTypes : UnitsInEntry(suggestions[4], t) = 1

C2_GrantIsMinOfDemandAndRemainder == [][C2_Step]_vars /\ []C2_Scenario

\* the documented scenario has run to its end
C2_Witness == IsScenario /\ alloc_pc = "done" /\ Len(suggestions) = 4

(***************************************************************************)
(* _prioritize_search_areas and its fallback, one call per behaviour.      *)
(***************************************************************************)
Terrain == EnvironmentalData(IncidentData.location).terrain_type

LastKnownLocationInputs ==
  {IncidentData.last_known_location, "Junction of two trails", "Forested ridge",
   "Lake shore"}

\* weather records: precipitation absent, at, just above and well above the
\* threshold; an observation without precipitation keys; an error record
WeatherDataInputs ==
  {<<>>,
   [rain_1h_mm |-> 0], [rain_1h_mm |-> 10], [rain_1h_mm |-> 11], [rain_1h_mm |-> 50],
   [snow_1h_mm |-> 10], [snow_1h_mm |-> 11],
   [rain_1h_mm |-> 0, snow_1h_mm |-> 50],
   [status |-> "Clouds", cloud_coverage_percent |-> 80],
   [error |-> "Location 'X' and variations not found.", gemini_used |-> FALSE]}

JsonObject(fields) == [type |-> "object", fields |-> fields]

\* elements a model may put in its list: well-formed ones, one with a further
\* key, and each way of being malformed
AreaItemInputs ==
  {JsonObject([area |-> "North ridge", priority |-> p, rationale |-> "Model rationale."]) :
     p \in {"High", "Medium", "Low", "Critical"}}
  \cup {JsonObject([area |-> "Creek", priority |-> "Medium",
                    rationale |-> "Model rationale.", confidence |-> "0.8"]),
        JsonObject([area |-> "Creek", priority |-> "High"]),
        JsonObject([area |-> "Creek", rationale |-> "Model rationale."]),
        [type |-> "string"]}

JsonValueInputs ==
  {[type |-> "list", items |-> items] :
     items \in UNION {[1..n -> AreaItemInputs] : n \in 0..MaxLlmAreas}}
  \cup {JsonObject([area |-> "North ridge", priority |-> "High",
                    rationale |-> "Model rationale."]),
        [type |-> "number"], [type |-> "string"]}

PrioritizeLlmInputs ==
  {[kind |-> "raise"]}
  \cup {[kind |-> "text", fenced |-> f, body |-> [json |-> FALSE]] : f \in BOOLEAN}
  \cup {[kind |-> "text", fenced |-> f, body |-> [json |-> TRUE, value |-> v]] :
          f \in BOOLEAN, v \in JsonValueInputs}

InitPrioritize ==
  /\ pr_last_known_location \in LastKnownLocationInputs
  /\ pr_weather_data \in WeatherDataInputs
  /\ pr_llm = NoValue
  /\ pr_result = NoValue
  /\ pr_pc = "ready"
  /\ AllocIdle
  /\ WeatherIdle
  /\ RequestIdle
  /\ SearchAreaIdle

\* lines 530-586
PrioritizeCall ==
  /\ pr_pc = "ready"
  /\ \E llm \in PrioritizeLlmInputs :
       /\ pr_llm' = llm
       /\ pr_result' = PrioritizeSearchAreas(pr_last_known_location, Terrain,
                                             pr_weather_data, llm)
  /\ pr_pc' = "prioritized"
  /\ UNCHANGED <<pr_last_known_location, pr_weather_data>>
  /\ UNCHANGED <<allocVars, weatherVars, reqVars, saVars>>

\* lines 341-358
FallbackCall ==
  /\ pr_pc = "ready"
  /\ pr_result' = [kind |-> "return",
                   value |-> PrioritizeBasicFallback(pr_last_known_location, Terrain,
                                                     pr_weather_data)]
  /\ pr_pc' = "fallback_done"
  /\ UNCHANGED <<pr_last_known_location, pr_weather_data, pr_llm>>
  /\ UNCHANGED <<allocVars, weatherVars, reqVars, saVars>>

NextPrioritize == PrioritizeCall \/ FallbackCall

SpecPrioritize == InitPrioritize /\ [][NextPrioritize]_vars

AllowedPriorities == {"High", "Medium", "Low"}

\* the outcomes of the model call the specification counts as failures
MalformedItem(item) ==
  \/ item.type # "object"
  \/ \E key \in {"area", "priority", "rationale"} : key \notin DOMAIN item.fields
  \/ item.fields["priority"] \notin AllowedPriorities

PrioritizationFailed(llm) ==
  \/ llm.kind = "raise"
  \/ /\ llm.kind = "text"
     /\ \/ ~llm.body.json
        \/ llm.body.value.type # "list"
        \/ \E i \in 1..Len(llm.body.value.items) :
             MalformedItem(llm.body.value.items[i])

(***************************************************************************)
(* C6: whatever the prioritization model call does, _prioritize_search_areas *)
(* raises nothing; when the call raised or its text is not a well-formed   *)
(* list of {area, priority, rationale} objects with allowed priorities, the *)
(* result is exactly the fallback list; every priority of every returned   *)
(* list is High, Medium or Low.                                            *)
(***************************************************************************)
C6_FailuresFallBack ==
  pr_pc = "prioritized" =>
    /\ pr_result.kind = "return"
    /\ PrioritizationFailed(pr_llm) =>
         pr_result.value = PrioritizeBasicFallback(pr_last_known_location, Terrain,
                                                   pr_weather_data)
    /\ \A i \in 1..Len(pr_result.value) :
         pr_result.value[i].priority \in AllowedPriorities

\* the model answered with a list whose second element has a priority outside
\* the three allowed ones, and the fallback list came back
C6_Witness ==
  /\ pr_pc = "prioritized"
  /\ pr_llm.kind = "text"
  /\ pr_llm.body.json
  /\ pr_llm.body.value.type = "list"
  /\ Len(pr_llm.body.value.items) = 2
  /\ ~MalformedItem(pr_llm.body.value.items[1])
  /\ pr_llm.body.value.items[2].type = "object"
  /\ "priority" \in DOMAIN pr_llm.body.value.items[2].fields
  /\ pr_llm.body.value.items[2].fields["priority"] = "Critical"
  /\ pr_result.kind = "return"
  /\ Len(pr_result.value) = 4

(***************************************************************************)
(* C7: the fallback prioritization returns the last known location (High), *)
(* the forested areas (Medium), the water bodies (Medium) and the trails   *)
(* (Low), in this order; with 1-hour rain or snow above 0.1 mm the         *)
(* forested entry is High and the trails entry Medium, the other two being *)
(* unchanged; otherwise the defaults are kept.                             *)
(***************************************************************************)
C7_FallbackAsDocumented ==
  pr_pc = "fallback_done" =>
    LET areas == pr_result.value
        wet == \/ FnGet(pr_weather_data, "rain_1h_mm", 0) > 10
               \/ FnGet(pr_weather_data, "snow_1h_mm", 0) > 10
    IN /\ Len(areas) = 4
       /\ areas[1].area = pr_last_known_location
       /\ areas[1].priority = "High"
       /\ areas[2].area = "Densely forested areas within search radius"
       /\ areas[2].priority = (IF wet THEN "High" ELSE "Medium")
       /\ areas[3].area = "Water bodies within search radius"
       /\ areas[3].priority = "Medium"
       /\ areas[4].area = "Trails radiating outwards from last known location"
       /\ areas[4].priority = (IF wet THEN "Medium" ELSE "Low")

(***************************************************************************)
(* WeatherFetcher._get_real_weather_data, one lookup per step.             *)
(***************************************************************************)
WeatherLocationInputs ==
  {IncidentData.location, "London", "InvalidLocationNameThatShouldNotExist",
   "London, UK", " Paris , FR ", "Laguna Beach, Orange County, CA", ",", ""}

\* what the typonym model call may do: raise, or answer with an empty text,
\* the input itself, another place, the input and another place, two places
TyponymLlmInputs(location_name) ==
  {[kind |-> "raise"]}
  \cup {[kind |-> "text", text |-> t] :
          t \in {"", location_name, "Laguna Beach",
                 location_name \o ", Laguna Beach",
                 " Laguna Beach , Orange County\n"}}

Observations ==
  {[status |-> "Clear", cloud_coverage_percent |-> 10],
   [status |-> "Rain", cloud_coverage_percent |-> 90, rain_1h_mm |-> 50]}

LookupAnswers ==
  {[kind |-> "found", observation |-> o] : o \in Observations}
  \cup {[kind |-> "not_found"], [kind |-> "error"]}

InitWeather ==
  /\ w_location_name \in WeatherLocationInputs
  /\ w_use_gemini \in BOOLEAN
  /\ w_llm = NoValue
  /\ typonyms = <<>>
  /\ location_names_to_try = <<>>
  /\ gemini_used_flag = FALSE
  /\ cand_idx = 0
  /\ lookup_log = <<>>
  /\ lookup_answers = <<>>
  /\ weather_result = <<>>
  /\ weather_pc = "start"
  /\ AllocIdle
  /\ PrioritizeIdle
  /\ RequestIdle
  /\ SearchAreaIdle

\* lines 661-674: the client, the candidate names, the flag
WeatherStart ==
  /\ weather_pc = "start"
  /\ \E client_ok \in BOOLEAN :
     \E llm \in (IF w_use_gemini THEN TyponymLlmInputs(w_location_name)
                 ELSE {[kind |-> "not_called"]}) :
       IF client_ok
       THEN LET names == TyponymsToTry(w_location_name, w_use_gemini, llm)
            IN /\ w_llm' = llm
               /\ typonyms' = names
               /\ gemini_used_flag' = GeminiUsedFlag(w_use_gemini, names)
               /\ location_names_to_try' = LocationNamesToTry(w_location_name, names)
               /\ weather_pc' = "loop"
               /\ UNCHANGED weather_result
       ELSE /\ weather_result' = WeatherFetchError(gemini_used_flag)
            /\ weather_pc' = "done"
            /\ UNCHANGED <<w_llm, typonyms, gemini_used_flag, location_names_to_try>>
  /\ UNCHANGED <<w_location_name, w_use_gemini, cand_idx, lookup_log, lookup_answers>>
  /\ UNCHANGED <<allocVars, prVars, reqVars, saVars>>

\* lines 676-687 and 695-697: one pass of the loop over the candidate names
WeatherLookup ==
  /\ weather_pc = "loop"
  /\ cand_idx < Len(location_names_to_try)
  /\ \E answer \in LookupAnswers :
       LET current_location_name == location_names_to_try[cand_idx + 1]
           control == LookupControl(answer)
       IN /\ lookup_log' = Append(lookup_log, current_location_name)
          /\ lookup_answers' = Append(lookup_answers, answer)
          /\ IF control = "return"
             THEN /\ weather_result' = WeatherDict(w_location_name, current_location_name,
                                                   gemini_used_flag, answer.observation)
                  /\ weather_pc' = "done"
                  /\ UNCHANGED cand_idx
             ELSE IF control = "continue"
             THEN /\ cand_idx' = cand_idx + 1
                  /\ UNCHANGED <<weather_result, weather_pc>>
             ELSE /\ weather_result' = WeatherFetchError(gemini_used_flag)
                  /\ weather_pc' = "done"
                  /\ UNCHANGED cand_idx
  /\ UNCHANGED <<w_location_name, w_use_gemini, w_llm, typonyms,
                 location_names_to_try, gemini_used_flag>>
  /\ UNCHANGED <<allocVars, prVars, reqVars, saVars>>

\* lines 689-693: every candidate was tried
WeatherExhausted ==
  /\ weather_pc = "loop"
  /\ cand_idx = Len(location_names_to_try)
  /\ weather_result' = VariationsNotFound(w_location_name, gemini_used_flag)
  /\ weather_pc' = "done"
  /\ UNCHANGED <<w_location_name, w_use_gemini, w_llm, typonyms,
                 location_names_to_try, gemini_used_flag, cand_idx, lookup_log,
                 lookup_answers>>
  /\ UNCHANGED <<allocVars, prVars, reqVars, saVars>>

NextWeather == WeatherStart \/ WeatherLookup \/ WeatherExhausted

SpecWeather == InitWeather /\ [][NextWeather]_vars

LastAnswer == lookup_answers[Len(lookup_answers)]

Resolved ==
  weather_pc = "done" /\ Len(lookup_answers) > 0 /\ LastAnswer.kind = "found"

(***************************************************************************)
(* C8: the candidate names go to the weather lookup in list order; a       *)
(* not-found answer leads to the next candidate; nothing is looked up      *)
(* after the first success, whose observation is returned; and when every  *)
(* candidate is not found the result holds exactly the keys error and      *)
(* gemini_used.                                                            *)
(***************************************************************************)
C8_LookupsInOrderUntilFirstSuccess ==
  /\ Len(lookup_log) = Len(lookup_answers)
  /\ Len(lookup_log) <= Len(location_names_to_try)
  /\ \A i \in 1..Len(lookup_log) : lookup_log[i] = location_names_to_try[i]
  /\ \A i \in 1..(Len(lookup_answers) - 1) : lookup_answers[i].kind = "not_found"
  /\ weather_pc = "loop" =>
       /\ cand_idx = Len(lookup_log)
       /\ \A i \in 1..Len(lookup_answers) : lookup_answers[i].kind = "not_found"
  /\ Resolved =>
       \A key \in DOMAIN LastAnswer.observation :
         /\ key \in DOMAIN weather_result
         /\ weather_result[key] = LastAnswer.observation[key]
  /\ (/\ weather_pc = "done"
      /\ \A i \in 1..Len(lookup_answers) : lookup_answers[i].kind = "not_found") =>
       /\ Len(lookup_log) = Len(location_names_to_try)
       /\ DOMAIN weather_result = {"error", "gemini_used"}

\* the first name was not found, the second resolved, and names were left
C8_Witness ==
  /\ Resolved
  /\ Len(lookup_log) = 2
  /\ lookup_answers[1].kind = "not_found"
  /\ Len(location_names_to_try) > 2
  /\ weather_result["status"] = LastAnswer.observation["status"]

\* every one of several candidates was not found
C8_WitnessExhausted ==
  /\ weather_pc = "done"
  /\ Len(lookup_log) = 4
  /\ \A i \in 1..4 : lookup_answers[i].kind = "not_found"
  /\ DOMAIN weather_result = {"error", "gemini_used"}

(***************************************************************************)
(* C9: a successful weather result carries the note naming a substitution  *)
(* if and only if the name that resolved differs from the original input.  *)
(***************************************************************************)
C9_NoteIffSubstituted ==
  Resolved =>
    (("gemini_note" \in DOMAIN weather_result)
       <=> (lookup_log[Len(lookup_log)] # w_location_name))

(***************************************************************************)
(* C10: in assisted mode the typonym generator returns the list of the     *)
(* deterministic generator for the same input whenever the model request   *)
(* fails, be it that the call raises or that the response text is empty.   *)
(***************************************************************************)
C10_FailureFallsBackToBasic ==
  (/\ weather_pc \in {"loop", "done"}
   /\ w_use_gemini
   /\ \/ w_llm.kind = "raise"
      \/ w_llm.kind = "text" /\ w_llm.text = "") =>
    typonyms = GenerateLocationTyponymsBasic(w_location_name)


(***************************************************************************)
(* process_request, one statement group of _generate_and_format_strategy   *)
(* per step.  calls records every collaborator call with its outcome:      *)
(* "ok", "empty" (an empty or unusable answer) or "raise".                 *)
(***************************************************************************)
MessageInputs ==
  {[type |-> "dict", items |-> items] :
     items \in {[action |-> PyStr(a)] :
                  a \in {"generate_strategy", "create_mission_plan", "invalid_action",
                         "Generate_Strategy", ""}}
               \cup {<<>>, [request_details |-> PyStr("details")],
                     [action |-> PyNone], [action |-> [type |-> "int", n |-> 7]],
                     [action |-> PyStr("generate_strategy"),
                      request_details |-> PyStr("details")]}}
  \cup {PyNone}

\* what the typonym model call may do inside a request
RequestTyponymLlmInputs ==
  {[kind |-> "raise"]}
  \cup {[kind |-> "text", text |-> t] :
          t \in {"", IncidentData.location, "Laguna Beach, Orange County"}}

\* runs of answers the lookup loop can consume for n candidate names: all not
\* found, or an answer that ends the loop after fewer than n not-found ones
AnswerRuns(n) ==
  {[i \in 1..n |-> [kind |-> "not_found"]]}
  \cup {[i \in 1..k |-> IF i < k THEN [kind |-> "not_found"] ELSE a] :
          k \in 1..n, a \in LookupAnswers \ {[kind |-> "not_found"]}}

GeocodeInputs ==
  {[kind |-> "raise"], [kind |-> "list", results |-> <<>>],
   [kind |-> "list", results |-> <<[lat |-> "33.5665", lng |-> "-117.8090"]>>]}

\* strptime rejects the zone name, or accepts it with the report in the
\* future, just made, six hours old
ClockInputs ==
  {[parsed |-> FALSE]}
  \cup {[parsed |-> TRUE, elapsed_half_hours |-> h] : h \in {0 - 48, 1, 12}}

RequestPrioritizeLlmInputs ==
  {[kind |-> "raise"],
   [kind |-> "text", fenced |-> FALSE, body |-> [json |-> FALSE]],
   [kind |-> "text", fenced |-> TRUE,
    body |-> [json |-> TRUE,
              value |-> [type |-> "list",
                         items |-> <<JsonObject([area |-> "North ridge",
                                                 priority |-> "High",
                                                 rationale |-> "Model rationale."]),
                                     JsonObject([area |-> "Creek", priority |-> "Low",
                                                 rationale |-> "Model rationale."])>>]]],
   [kind |-> "text", fenced |-> FALSE,
    body |-> [json |-> TRUE,
              value |-> [type |-> "list",
                         items |-> <<JsonObject([area |-> "Creek",
                                                 priority |-> "Critical",
                                                 rationale |-> "Model rationale."])>>]]]}

SummaryLlmInputs ==
  {[kind |-> "raise"], [kind |-> "text", text |-> ""],
   [kind |-> "text", text |-> "Search the trailhead first."]}

Call(callee, outcome) == [callee |-> callee, outcome |-> outcome]

TextCallOutcome(llm) ==
  IF llm.kind = "raise" THEN "raise" ELSE IF llm.text = "" THEN "empty" ELSE "ok"

LookupCallOutcome(answer) == IF answer.kind = "found" THEN "ok" ELSE "raise"

GeocodeCallOutcome(geocode) ==
  IF geocode.kind = "raise" THEN "raise"
  ELSE IF geocode.results = <<>> THEN "empty" ELSE "ok"

PrioritizeCallOutcome(llm) ==
  IF llm.kind = "raise" THEN "raise"
  ELSE IF ~llm.body.json THEN "empty"
  ELSE IF PrioritizationFailed(llm) THEN "invalid" ELSE "ok"

\* the calls WeatherFetcher._get_real_weather_data makes, in order (lines
\* 663-687)
WeatherCalls(client_ok, llm, answers) ==
  IF client_ok
  THEN <<Call("weather_client", "ok"), Call("typonym_llm", TextCallOutcome(llm))>>
         \o [i \in 1..Len(answers) |->
               Call("weather_lookup", LookupCallOutcome(answers[i]))]
  ELSE <<Call("weather_client", "raise")>>

InitRequest ==
  /\ message \in MessageInputs
  /\ req_pc = "start"
  /\ calls = <<>>
  /\ frame = <<>>
  /\ req_exception = NoValue
  /\ req_result = NoValue
  /\ stages = <<>>
  /\ AllocIdle
  /\ PrioritizeIdle
  /\ WeatherIdle
  /\ SearchAreaIdle

\* lines 468-470: a stage raised
Abort(stage, exc) ==
  /\ req_exception' = [stage |-> stage, exc |-> exc]
  /\ req_result' = ExceptHandler(exc, message)
  /\ req_pc' = "done"

\* lines 457-466
ReqDispatch ==
  /\ req_pc = "start"
  /\ IF message.type # "dict"
     THEN Abort("dispatch", "'NoneType' object has no attribute 'get'")
     ELSE LET action == MessageGetAction(message)
          IN IF Dispatch(action) = "unknown"
             THEN /\ req_result' = [kind |-> "return",
                                    value |-> UnknownActionError(action)]
                  /\ req_pc' = "done"
                  /\ UNCHANGED req_exception
             ELSE /\ req_pc' = "collect"
                  /\ UNCHANGED <<req_exception, req_result>>
  /\ UNCHANGED <<message, calls, frame, stages>>
  /\ UNCHANGED <<allocVars, prVars, weatherVars, saVars>>

\* lines 479-483: the data providers, the weather lookup and the map
ReqCollectData ==
  /\ req_pc = "collect"
  /\ LET incident_data == IncidentData
         location == incident_data.location
     IN \E client_ok \in BOOLEAN :
        \E llm \in (IF client_ok THEN RequestTyponymLlmInputs
                    ELSE {[kind |-> "not_called"]}) :
        \E answers \in (IF client_ok
                        THEN AnswerRuns(Len(LocationNamesToTry(location,
                                              TyponymsToTry(location, TRUE, llm))))
                        ELSE {<<>>}) :
        \E gmaps_ok \in BOOLEAN :
        \E geocode \in (IF gmaps_ok THEN GeocodeInputs ELSE {[kind |-> "not_called"]}) :
          LET weather_data ==
                PlanningAgentRealWeatherData(
                  GetWeatherForLocation(location, TRUE, client_ok, llm, answers))
              made == calls \o <<Call("incident_data", "ok")>>
                        \o WeatherCalls(client_ok, llm, answers)
                        \o <<Call("logistics_data", "ok"),
                             Call("environmental_data", "ok")>>
          IN IF gmaps_ok
             THEN /\ calls' = made \o <<Call("maps_client", "ok"),
                                        Call("geocode", GeocodeCallOutcome(geocode))>>
                  /\ frame' = [incident_data |-> incident_data,
                               operations_data |-> OperationsData(weather_data),
                               logistics_data |-> LogisticsData,
                               environmental_data |-> EnvironmentalData(location),
                               map_url |-> StaticMapUrl(geocode)]
                  /\ req_pc' = StageAfter("collect")
                  /\ UNCHANGED <<req_exception, req_result>>
             ELSE /\ calls' = made \o <<Call("maps_client", "raise")>>
                  /\ Abort("map_url", "Invalid API key provided.")
                  /\ UNCHANGED frame
  /\ stages' = Append(stages, "data_collection")
  /\ UNCHANGED message
  /\ UNCHANGED <<allocVars, prVars, weatherVars, saVars>>

\* line 485
ReqCalculateSearchArea ==
  /\ req_pc = "search_area"
  /\ \E clock \in ClockInputs :
       frame' = [search_area_description |->
                   SearchAreaDescription(frame.incident_data, clock),
                 search_radius |-> SearchRadiusQuarterKm(frame.incident_data, clock)]
                @@ frame
  /\ req_pc' = StageAfter("search_area")
  /\ stages' = Append(stages, "search_area_estimation")
  /\ UNCHANGED <<message, calls, req_exception, req_result>>
  /\ UNCHANGED <<allocVars, prVars, weatherVars, saVars>>

\* line 486
ReqPrioritize ==
  /\ req_pc = "prioritize"
  /\ \E llm \in RequestPrioritizeLlmInputs :
       LET outcome == PrioritizeSearchAreas(
                        frame.incident_data.last_known_location,
                        frame.environmental_data.terrain_type,
                        frame.operations_data.current_weather_data, llm)
       IN /\ calls' = Append(calls, Call("prioritize_llm", PrioritizeCallOutcome(llm)))
          /\ IF outcome.kind = "raise"
             THEN /\ Abort("prioritize", outcome.exc)
                  /\ UNCHANGED frame
             ELSE /\ frame' = [prioritized_areas |-> outcome.value] @@ frame
                  /\ req_pc' = StageAfter("prioritize")
                  /\ UNCHANGED <<req_exception, req_result>>
  /\ stages' = Append(stages, "prioritization")
  /\ UNCHANGED message
  /\ UNCHANGED <<allocVars, prVars, weatherVars, saVars>>

\* line 487
ReqAllocate ==
  /\ req_pc = "allocate"
  /\ frame' = [resource_allocation_suggestions |->
                 SuggestResourceAllocation(frame.prioritized_areas,
                                           frame.logistics_data)] @@ frame
  /\ req_pc' = StageAfter("allocate")
  /\ stages' = Append(stages, "allocation")
  /\ UNCHANGED <<message, calls, req_exception, req_result>>
  /\ UNCHANGED <<allocVars, prVars, weatherVars, saVars>>

\* lines 489-497
ReqSummarize ==
  /\ req_pc = "summarize"
  /\ \E llm \in SummaryLlmInputs :
       LET formatted == FormatOutputJson(frame.incident_data, frame.operations_data,
                                         frame.logistics_data, frame.environmental_data,
                                         frame.search_area_description,
                                         frame.prioritized_areas,
                                         frame.resource_allocation_suggestions,
                                         frame.map_url)
           summary == GenerateGeminiSummary(llm)
       IN /\ calls' = Append(calls, Call("summary_llm", TextCallOutcome(llm)))
          /\ IF summary.kind = "raise"
             THEN /\ Abort("summary", summary.exc)
                  /\ UNCHANGED frame
             ELSE /\ frame' = [strategy_json_data |->
                                 StrategyDocument(formatted, frame.incident_data,
                                                  summary.value)]
                  /\ req_pc' = StageAfter("summarize")
                  /\ UNCHANGED <<req_exception, req_result>>
  /\ stages' = Append(stages, "summarization")
  /\ UNCHANGED message
  /\ UNCHANGED <<allocVars, prVars, weatherVars, saVars>>

\* lines 499-502 and 461: the strategy document is the answer
ReqReturnStrategy ==
  /\ req_pc = "strategy_ready"
  /\ Dispatch(MessageGetAction(message)) = "generate_strategy"
  /\ req_result' = [kind |-> "return", value |-> frame.strategy_json_data]
  /\ req_pc' = "done"
  /\ stages' = Append(stages, "document_ready")
  /\ UNCHANGED <<message, calls, frame, req_exception>>
  /\ UNCHANGED <<allocVars, prVars, weatherVars, saVars>>

\* lines 499-502 and 463-464: the mission plan made of it is the answer
ReqCreateMissionPlan ==
  /\ req_pc = "strategy_ready"
  /\ Dispatch(MessageGetAction(message)) = "create_mission_plan"
  /\ req_result' = [kind |-> "return",
                    value |-> CreateMissionPlan(frame.strategy_json_data)]
  /\ req_pc' = "done"
  /\ stages' = stages \o <<"document_ready", "mission_plan">>
  /\ UNCHANGED <<message, calls, frame, req_exception>>
  /\ UNCHANGED <<allocVars, prVars, weatherVars, saVars>>

NextRequest ==
  \/ ReqDispatch
  \/ ReqCollectData
  \/ ReqCalculateSearchArea
  \/ ReqPrioritize
  \/ ReqAllocate
  \/ ReqSummarize
  \/ ReqReturnStrategy
  \/ ReqCreateMissionPlan

SpecRequest == InitRequest /\ [][NextRequest]_vars

RequestIsDict == req_pc # "idle" /\ message.type = "dict"

RequestedAction == MessageGetAction(message)

ActionIsKnown ==
  /\ RequestIsDict
  /\ RequestedAction \in {PyStr("generate_strategy"), PyStr("create_mission_plan")}

\* C3: a request whose action is neither generate_strategy nor
\* create_mission_plan, a missing action included, is answered with
\* {error: "Unknown action requested.", requested_action: <the action>}, and
\* no collaborator (data provider, weather lookup, geocoding, language model)
\* is called at any point of handling it.
C3_UnknownActionRejectedWithoutCalls ==
  (RequestIsDict /\ ~ActionIsKnown) =>
    /\ calls = <<>>
    /\ frame = <<>>
    /\ req_pc \in {"start", "done"}
    /\ req_pc = "done" =>
         req_result = [kind |-> "return",
                       value |-> [error |-> "Unknown action requested.",
                                  requested_action |-> RequestedAction]]

C3_Witness ==
  /\ RequestIsDict
  /\ "action" \notin DOMAIN message.items
  /\ req_pc = "done"
  /\ req_result.value.requested_action = PyNone

C3_WitnessInvalidAction ==
  /\ RequestIsDict
  /\ RequestedAction = PyStr("invalid_action")
  /\ req_pc = "done"
  /\ req_result.value.error = "Unknown action requested."

FailedCalls == {i \in 1..Len(calls) : calls[i].outcome # "ok"}

ExternalCollaborators ==
  {"prioritize_llm", "typonym_llm", "summary_llm", "geocode", "weather_lookup"}

\* exactly one call failed, and it is a call of an external collaborator
SingleCollaboratorFailure ==
  /\ Cardinality(FailedCalls) = 1
  /\ \A i \in FailedCalls : calls[i].callee \in ExternalCollaborators

\* C4: when exactly one external collaborator call (prioritization model,
\* typonym model, summary model, geocoding, weather lookup) of a
\* generate_strategy request fails by raising or by an empty answer,
\* process_request still returns a strategy document that holds
\* prioritized_search_areas and suggested_resource_allocation and is not a
\* top-level error object.
C4_CollaboratorFailureNeverAborts ==
  (/\ RequestIsDict
   /\ RequestedAction = PyStr("generate_strategy")
   /\ req_pc = "done"
   /\ SingleCollaboratorFailure) =>
    /\ req_result.kind = "return"
    /\ "error" \notin DOMAIN req_result.value
    /\ {"prioritized_search_areas", "suggested_resource_allocation"}
         \subseteq DOMAIN req_result.value

\* C5: when a stage raises while generate_strategy or create_mission_plan is
\* handled, process_request returns (never raises) an object that carries the
\* error text and echoes the request message.
C5_StageExceptionReturnedAsErrorObject ==
  (ActionIsKnown /\ req_pc = "done") =>
    /\ req_result.kind = "return"
    /\ req_exception # NoValue =>
         /\ DOMAIN req_result.value = {"error", "message_details"}
         /\ req_result.value.error
              = "Error processing request: " \o req_exception.exc
         /\ req_result.value.message_details = message

C5_Witness ==
  /\ ActionIsKnown
  /\ req_pc = "done"
  /\ req_exception # NoValue
  /\ req_exception.stage = "summary"
  /\ req_result.kind = "return"


StageOrder ==
  <<"data_collection", "search_area_estimation", "prioritization", "allocation",
    "summarization", "document_ready">>

IsPrefix(p, q) == Len(p) <= Len(q) /\ SubSeq(q, 1, Len(p)) = p

\* C11: the stages of a generate_strategy or create_mission_plan request
\* occur in the order data collection, search-area estimation,
\* prioritization, allocation, summarization, document ready, each at most
\* once and none before the earlier ones; a request that ends without a
\* failed stage has run them all; the mission plan is derived only after
\* document ready, only for create_mission_plan and never after a failed
\* stage.
C11_StagesInOrder ==
  ActionIsKnown =>
    /\ \/ IsPrefix(stages, StageOrder)
       \/ /\ stages = Append(StageOrder, "mission_plan")
          /\ RequestedAction = PyStr("create_mission_plan")
          /\ req_exception = NoValue
    /\ (req_pc = "done" /\ req_exception = NoValue) =>
         stages = IF RequestedAction = PyStr("create_mission_plan")
                  THEN Append(StageOrder, "mission_plan") ELSE StageOrder
    /\ req_exception # NoValue => Len(stages) < Len(StageOrder)

C11_Witness ==
  /\ ActionIsKnown
  /\ req_pc = "done"
  /\ stages = Append(StageOrder, "mission_plan")


PipelineCompleted == ActionIsKnown /\ req_pc = "done" /\ req_exception = NoValue

\* C12: the strategy document of a completed pipeline holds every key
\* _create_mission_plan reads, so the plan derived from it has mission_name,
\* plan_summary_text and prioritized_search_areas and no error key; its
\* prioritized_search_areas and resource_allocation sections are the
\* document's own (so two derivations agree), and the document a
\* create_mission_plan request derived its plan from is the one the pipeline
\* built.
C12_DocumentDerivesPlan ==
  PipelineCompleted =>
    LET doc == frame.strategy_json_data
        plan == CreateMissionPlan(doc)
    IN /\ {"incident_details", "mission_objective", "strategy_summary_text_gemini",
           "prioritized_search_areas", "suggested_resource_allocation", "map_url"}
            \subseteq DOMAIN doc
       /\ {"incident_type", "location"} \subseteq DOMAIN doc.incident_details
       /\ {"mission_name", "plan_summary_text", "prioritized_search_areas"}
            \subseteq DOMAIN plan
       /\ "error" \notin DOMAIN plan
       /\ plan.prioritized_search_areas = doc.prioritized_search_areas
       /\ plan.resource_allocation = doc.suggested_resource_allocation
       /\ plan.map_url = doc.map_url
       /\ req_result.kind = "return"
       /\ req_result.value = IF RequestedAction = PyStr("create_mission_plan")
                             THEN plan ELSE doc

C12_Witness ==
  /\ PipelineCompleted
  /\ RequestedAction = PyStr("create_mission_plan")
  /\ "plan_summary_text" \in DOMAIN req_result.value
  /\ Len(req_result.value.prioritized_search_areas) > 0


\* the position of an area name in the input list
IndexOfArea(name) ==
  CHOOSE i \in 1..Len(prioritized_areas) : prioritized_areas[i].area = name

InputAreaNames == {prioritized_areas[i].area : i \in 1..Len(prioritized_areas)}

\* C13: the per-area entries of the output are in the relative order of
\* their areas in the input list, each input area has at most one entry, and
\* a synthetic entry ("Unallocated Resources", "All areas") is only ever the
\* last element of the finished output.
C13_EntriesKeepInputOrder ==
  alloc_pc \in {"loop", "done"} =>
    /\ \A k \in 1..Len(PerAreaEntries) :
         /\ PerAreaEntries[k].area \in InputAreaNames
         /\ IndexOfArea(PerAreaEntries[k].area) <= area_idx
         /\ \A l \in (k + 1)..Len(PerAreaEntries) :
              /\ PerAreaEntries[l].area \in InputAreaNames
              /\ IndexOfArea(PerAreaEntries[k].area)
                   < IndexOfArea(PerAreaEntries[l].area)
    /\ \A k \in 1..Len(suggestions) :
         suggestions[k].area \in SyntheticAreaNames =>
           k = Len(suggestions) /\ alloc_pc = "done"

\* three areas went in, the second got nothing, and the output is the entries
\* of the first and the third followed by the leftovers
C13_Witness ==
  /\ alloc_pc = "done"
  /\ Len(prioritized_areas) = 3
  /\ Len(suggestions) = 3
  /\ suggestions[1].area = prioritized_areas[1].area
  /\ suggestions[2].area = prioritized_areas[3].area
  /\ suggestions[3].area = "Unallocated Resources"


\* C14: when the main pass produced no entry and ground_teams + search_dogs
\* + uavs available is greater than 0, the output holds the "All areas"
\* entry whose suggested_resources is the one 'no specific allocations'
\* message.
C14_NoEntriesGivesAllAreas ==
  (/\ alloc_pc = "done"
   /\ PerAreaEntries = <<>>
   /\ Available("ground_teams") + Available("search_dogs") + Available("uavs") > 0) =>
    \E k \in 1..Len(suggestions) :
      /\ suggestions[k].area = "All areas"
      /\ suggestions[k].suggested_resources
           = <<"No specific allocations made based on current prioritization.">>

\* the unit word the documented rule gives a resource type
DocumentedUnitWord(resource_type) ==
  IF \E i \in 1..(Len(resource_type) - 3) : SubSeq(resource_type, i, i + 3) = "team"
  THEN "team" ELSE "unit"

TypesOfInput == ResourceCatalogue \cup DictKeys(available_resources)

\* text is "<count> <unit>(s) (<resource_type>)" with the documented unit word
WellRendered(text) ==
  \E t \in TypesOfInput : \E n \in 1..9 :
    text = ToString(n) \o " " \o DocumentedUnitWord(t) \o "(s) (" \o t \o ")"

\* C15: every resource string of a per-area entry and of the "Unallocated
\* Resources" entry reads "<count> <unit>(s) (<resource_type>)" where the
\* unit word is "team" when the type name contains "team" and "unit"
\* otherwise.
C15_UnitWordRule ==
  \A k \in 1..Len(suggestions) :
    suggestions[k].area # "All areas" =>
      \A j \in 1..Len(suggestions[k].suggested_resources) :
        WellRendered(suggestions[k].suggested_resources[j])

UnallocatedEntries ==
  {k \in 1..Len(suggestions) : suggestions[k].area = "Unallocated Resources"}

\* the texts of the "Unallocated Resources" entries of the output
RECURSIVE LeftoverTexts(_)
LeftoverTexts(k) ==
  IF k > Len(suggestions) THEN <<>>
  ELSE (IF suggestions[k].area = "Unallocated Resources"
        THEN suggestions[k].suggested_resources ELSE <<>>) \o LeftoverTexts(k + 1)

ListedLeftover(resource_type) ==
  \E j \in 1..Len(LeftoverTexts(1)) :
    StrEndsWith(LeftoverTexts(1)[j], "(s) (" \o resource_type \o ")")

\* C18: in the finished output, for every resource type, the units granted
\* by the per-area entries plus the leftover listed in the "Unallocated
\* Resources" entry equal the available count; a type is listed there exactly
\* when that leftover is greater than 0; the entry occurs once when some type
\* has a leftover and not at all otherwise.
C18_GrantedPlusLeftoverIsAvailable ==
  alloc_pc = "done" =>
    /\ \A t \in TypesOfInput :
         /\ UnitsInEntries(PerAreaEntries, t) + UnitsInTexts(LeftoverTexts(1), t)
              = Available(t)
         /\ ListedLeftover(t) <=> Available(t) - UnitsInEntries(PerAreaEntries, t) > 0
    /\ Cardinality(UnallocatedEntries)
         = IF \E t \in TypesOfInput :
                Available(t) - UnitsInEntries(PerAreaEntries, t) > 0
           THEN 1 ELSE 0

\* helicopters, which no area can be granted, are left over beside a demand
\* type that was partly granted
C18_Witness ==
  /\ alloc_pc = "done"
  /\ Available("helicopters") > 0
  /\ ListedLeftover("helicopters")
  /\ UnitsInEntries(PerAreaEntries, "ground_teams") > 0
  /\ ListedLeftover("ground_teams")

\* C19: no entry of the output carries the rationale of the High-priority
\* secondary allocation: a High area that got nothing from the demand table
\* finds no ground team left.
C19_SecondaryNeverPerformed ==
  /\ \A k \in 1..Len(suggestions) :
       suggestions[k].rationale
         # "High priority area, allocating remaining ground team."
  /\ \A i \in 1..area_idx :
       (/\ prioritized_areas[i].priority = "High"
        /\ \A k \in 1..Len(PerAreaEntries) :
             PerAreaEntries[k].area # prioritized_areas[i].area) =>
         Running("ground_teams") = Available("ground_teams")

\* a High area was passed and has no entry
C19_Witness ==
  /\ alloc_pc = "done"
  /\ Available("ground_teams") > 0
  /\ \E i \in 1..Len(prioritized_areas) :
       /\ prioritized_areas[i].priority = "High"
       /\ \A k \in 1..Len(suggestions) :
            suggestions[k].area # prioritized_areas[i].area


(***************************************************************************)
(* _calculate_search_area on its own, over incidents of every experience   *)
(* wording and every outcome of reading the clock.                         *)
(***************************************************************************)
ExperiencedWordings == {"Experienced hiker", "experienced", "Inexperienced walker"}

NoviceWordings == {"Novice", "novice hiker", "Beginner", "BEGINNER climber"}

OtherWordings == {"Unknown", "Intermediate", ""}

MissingPersonInputs ==
  {[name |-> "Alice Smith", experience_level |-> e] :
     e \in ExperiencedWordings \cup NoviceWordings \cup OtherWordings}
  \cup {[name |-> "Alice Smith"]}

\* half hours between the report and now when the timestamp parses
ElapsedInputs == {0 - 48, 0 - 12, 0 - 11, 0 - 1, 0, 1, 2, 12, 48}

SearchAreaClockInputs ==
  {[parsed |-> FALSE]}
  \cup {[parsed |-> TRUE, elapsed_half_hours |-> h] : h \in ElapsedInputs}

InitSearchArea ==
  /\ sa_incident_data \in
       {[IncidentData EXCEPT !.missing_person_description = d] :
          d \in MissingPersonInputs}
  /\ sa_clock \in SearchAreaClockInputs
  /\ sa_result = NoValue
  /\ sa_pc = "ready"
  /\ AllocIdle
  /\ PrioritizeIdle
  /\ WeatherIdle
  /\ RequestIdle

\* lines 302-338
CalculateSearchAreaCall ==
  /\ sa_pc = "ready"
  /\ sa_result' = CalculateSearchArea(sa_incident_data, sa_clock)
  /\ sa_pc' = "done"
  /\ UNCHANGED <<sa_incident_data, sa_clock>>
  /\ UNCHANGED <<allocVars, prVars, weatherVars, reqVars>>

NextSearchArea == CalculateSearchAreaCall

SpecSearchArea == InitSearchArea /\ [][NextSearchArea]_vars

\* the documented bonus, in quarter kilometres, by the wording of the input
DocumentedBonus(description) ==
  IF "experience_level" \notin DOMAIN description THEN 4
  ELSE IF description.experience_level \in ExperiencedWordings THEN 8
  ELSE IF description.experience_level \in NoviceWordings THEN 2
  ELSE 4

DocumentedElapsed(clock) ==
  IF clock.parsed THEN clock.elapsed_half_hours ELSE 12

\* C16: the radius returned is max(1, 1 + bonus + 0.5 x elapsed_hours) km,
\* bonus 2 for "experienced", 0.5 for "novice" or "beginner" and 1 otherwise,
\* elapsed_hours 6 when the timestamp does not parse, which is not raised; so
\* the radius is at least 1 km, and a novice at 0 hours gets 1.5 km.  Radii
\* are in quarter kilometres, times in half hours.
C16_RadiusFormula ==
  sa_pc = "done" =>
    LET r == 4 + DocumentedBonus(sa_incident_data.missing_person_description)
               + DocumentedElapsed(sa_clock)
    IN /\ sa_result.kind = "return"
       /\ sa_result.search_radius_km = (IF r >= 4 THEN r ELSE 4)
       /\ sa_result.search_radius_km >= 4
       /\ (/\ sa_clock = [parsed |-> TRUE, elapsed_half_hours |-> 0]
           /\ sa_incident_data.missing_person_description.name = "Alice Smith"
           /\ "experience_level" \in DOMAIN sa_incident_data.missing_person_description
           /\ sa_incident_data.missing_person_description.experience_level
                = "novice hiker") =>
            sa_result.search_radius_km = 6

\* a beginner reported two days in the future: the floor of 1 km applies
C16_Witness ==
  /\ sa_pc = "done"
  /\ "experience_level" \in DOMAIN sa_incident_data.missing_person_description
  /\ sa_incident_data.missing_person_description.experience_level = "Beginner"
  /\ sa_clock = [parsed |-> TRUE, elapsed_half_hours |-> 0 - 48]
  /\ sa_result.search_radius_km = 4

\* the timestamp did not parse and six hours were assumed
C16_WitnessUnparsed ==
  /\ sa_pc = "done"
  /\ sa_clock = [parsed |-> FALSE]
  /\ sa_result.search_radius_km = 4 + 8 + 12


\* the candidates the documented rule gives each input name
DocumentedTyponyms(location_name) ==
  CASE location_name = "Crystal Cove State Park, CA" ->
         <<"Crystal Cove State Park, CA", "Crystal Cove State Park,CA", "CA",
           "Crystal Cove State Park">>
    [] location_name = "London, UK" -> <<"London, UK", "London,UK", "UK", "London">>
    [] location_name = " Paris , FR " -> <<" Paris , FR ", "Paris,FR", "FR", "Paris">>
    [] location_name = "Laguna Beach, Orange County, CA" ->
         <<"Laguna Beach, Orange County, CA", "Laguna Beach,CA", "CA", "Laguna Beach">>
    [] location_name = "," -> <<",", ",", "", "">>
    [] OTHER -> <<location_name>>

\* the deterministic generator has run: by choice, or because the model call
\* of the other generator raised
BasicGeneratorRan ==
  /\ weather_pc \in {"loop", "done"}
  /\ \/ ~w_use_gemini /\ w_llm = [kind |-> "not_called"]
     \/ w_use_gemini /\ w_llm = [kind |-> "raise"]

\* C17: for a name with at least two comma-separated parts the deterministic
\* generator returns the full name, the trimmed first and last parts joined
\* by a comma, the trimmed last part and the trimmed first part, in this
\* order; for a name without a comma, the empty name included, it returns
\* the name alone.
C17_BasicTyponyms ==
  BasicGeneratorRan =>
    /\ typonyms = DocumentedTyponyms(w_location_name)
    /\ Len(typonyms) \in {1, 4}
    /\ typonyms[1] = w_location_name

C17_Witness ==
  /\ BasicGeneratorRan
  /\ ~w_use_gemini
  /\ w_location_name = "Crystal Cove State Park, CA"
  /\ typonyms = <<"Crystal Cove State Park, CA", "Crystal Cove State Park,CA", "CA",
                  "Crystal Cove State Park">>

C17_WitnessEmptyName ==
  /\ BasicGeneratorRan
  /\ w_location_name = ""
  /\ typonyms = <<"">>

====
